---------------------------- MODULE Spec2Model ----------------------------
(***************************************************************************)
(* Scheduling core of bookingbot-ng: core/scheduling/services.py and       *)
(* utils.py.                                                               *)
(* SchedulingService (slot search, create, reschedule, lifecycle) and      *)
(* RecurringAppointmentService over an appointment table.                  *)
(*                                                                         *)
(* Time is counted in minutes.  A datetime is the number of minutes since  *)
(* 00:00 of day 0, a date is a day number, a time of day is a number of    *)
(* minutes since midnight.  Day 0 is Monday 27 April 2026.                 *)
(***************************************************************************)
EXTENDS Integers, Sequences, FiniteSets, TLC

VARIABLES
    now,            \* the clock read by datetime.utcnow()
    appointments,   \* the appointments table: a sequence of rows, id = index
    last,           \* what the last call returned or raised
    calls,          \* the calls in flight, per caller (interleaved runs)
    rec             \* the frame of create_recurring_appointments

vars == <<now, appointments, last, calls, rec>>

-----------------------------------------------------------------------------
(* datetime arithmetic *)

DayMinutes == 24 * 60

\* time(h, m)
TimeOfDay(h, m) == h * 60 + m

\* datetime.combine(date, time)
Combine(d, t) == d * DayMinutes + t

\* datetime.date()
DateOf(dt) == dt \div DayMinutes

\* datetime.time()
TimeOf(dt) == dt % DayMinutes

\* date.weekday(): 0 = Monday .. 6 = Sunday
Weekday(d) == d % 7

\* timedelta(hours=h) and timedelta(days=d) added to a datetime
Hours(h) == h * 60
Days(d) == d * DayMinutes

\* A NULL column of type Time or DateTime (every real value is >= 0).
NullTime == 0 - 1

\* The calendar date of day 0.
Epoch == [year |-> 2026, month |-> 4, day |-> 27]

\* date.max as a day number: the last date a date can hold, brought down to
\* the horizon of the model.
DateMax == 425

IsLeapYear(y) == (y % 4 = 0 /\ y % 100 # 0) \/ y % 400 = 0

DaysInYear(y) == IF IsLeapYear(y) THEN 366 ELSE 365

MonthLengths(y) ==
    <<31, IF IsLeapYear(y) THEN 29 ELSE 28, 31, 30, 31, 30, 31, 31, 30, 31, 30, 31>>

\* The days of year y before the first of month m.
RECURSIVE DaysBeforeMonth(_, _)
DaysBeforeMonth(y, m) ==
    IF m <= 1 THEN 0 ELSE MonthLengths(y)[m - 1] + DaysBeforeMonth(y, m - 1)

\* The days from 1 January of the epoch's year to 1 January of year y.
RECURSIVE DaysBeforeYear(_)
DaysBeforeYear(y) ==
    IF y <= Epoch.year THEN 0 ELSE DaysInYear(y - 1) + DaysBeforeYear(y - 1)

\* date(year, month, day) as a day number
DayNumber(year, month, day) ==
    DaysBeforeYear(year) + DaysBeforeMonth(year, month) + (day - 1)
    - (DaysBeforeMonth(Epoch.year, Epoch.month) + (Epoch.day - 1))

RECURSIVE YearAndDay(_, _)
YearAndDay(n, y) ==
    IF n < DaysInYear(y) THEN <<y, n>> ELSE YearAndDay(n - DaysInYear(y), y + 1)

RECURSIVE MonthAndDay(_, _, _)
MonthAndDay(n, y, m) ==
    IF n < MonthLengths(y)[m]
    THEN <<m, n + 1>>
    ELSE MonthAndDay(n - MonthLengths(y)[m], y, m + 1)

\* date.year, date.month and date.day of a day number
CalendarDate(d) ==
    LET yd == YearAndDay(d + DaysBeforeMonth(Epoch.year, Epoch.month)
                           + (Epoch.day - 1), Epoch.year)
        md == MonthAndDay(yd[2], yd[1], 1)
    IN  [year |-> yd[1], month |-> md[1], day |-> md[2]]

\* date.replace(year=year): the set holding the new date, empty when the
\* call raises ValueError (29 February in a common year, a year past
\* date.max).
ReplaceYear(d, year) ==
    LET c == CalendarDate(d)
    IN  IF c.day > MonthLengths(year)[c.month]
        THEN {}
        ELSE {n \in {DayNumber(year, c.month, c.day)} : n <= DateMax}

\* assigned_staff_id IS NULL, staff_id=None
NoStaff == "none"

-----------------------------------------------------------------------------
(* The rows the scheduling core reads but never writes. *)

Tenants == {"t1", "t2"}

\* service_definitions rows, keyed by id.  duration_minutes is an Integer
\* column with no check: s6 and s7 hold a zero and a negative duration.
ServiceDefinitions ==
    [ s1 |-> [tenant_id |-> "t1", duration_minutes |-> 30,
              buffer_before_minutes |-> 0, buffer_after_minutes |-> 15,
              min_advance_booking_hours |-> 1, max_advance_booking_days |-> 1,
              is_active |-> TRUE],
      s2 |-> [tenant_id |-> "t1", duration_minutes |-> 45,
              buffer_before_minutes |-> 0, buffer_after_minutes |-> 0,
              min_advance_booking_hours |-> 2, max_advance_booking_days |-> 30,
              is_active |-> TRUE],
      s3 |-> [tenant_id |-> "t1", duration_minutes |-> 60,
              buffer_before_minutes |-> 0, buffer_after_minutes |-> 0,
              min_advance_booking_hours |-> 1, max_advance_booking_days |-> 400,
              is_active |-> TRUE],
      s4 |-> [tenant_id |-> "t1", duration_minutes |-> 30,
              buffer_before_minutes |-> 0, buffer_after_minutes |-> 0,
              min_advance_booking_hours |-> 1, max_advance_booking_days |-> 30,
              is_active |-> FALSE],
      s5 |-> [tenant_id |-> "t2", duration_minutes |-> 30,
              buffer_before_minutes |-> 0, buffer_after_minutes |-> 0,
              min_advance_booking_hours |-> 1, max_advance_booking_days |-> 30,
              is_active |-> TRUE],
      s6 |-> [tenant_id |-> "t1", duration_minutes |-> 0,
              buffer_before_minutes |-> 0, buffer_after_minutes |-> 0,
              min_advance_booking_hours |-> 1, max_advance_booking_days |-> 30,
              is_active |-> TRUE],
      s7 |-> [tenant_id |-> "t1", duration_minutes |-> 0 - 15,
              buffer_before_minutes |-> 0, buffer_after_minutes |-> 0,
              min_advance_booking_hours |-> 1, max_advance_booking_days |-> 30,
              is_active |-> TRUE] ]

ServiceIds == DOMAIN ServiceDefinitions

\* business_hours rows: tenant t1 has Monday (with a break), Tuesday, a
\* closed Wednesday and Friday; no row for the other days.  Tenant t2 has
\* no rows.
BusinessHoursRows ==
    { [tenant_id |-> "t1", day_of_week |-> 0, is_open |-> TRUE,
       open_time |-> TimeOfDay(8, 0), close_time |-> TimeOfDay(10, 0),
       break_start |-> TimeOfDay(9, 0), break_end |-> TimeOfDay(9, 20)],
      [tenant_id |-> "t1", day_of_week |-> 1, is_open |-> TRUE,
       open_time |-> TimeOfDay(8, 0), close_time |-> TimeOfDay(9, 10),
       break_start |-> NullTime, break_end |-> NullTime],
      [tenant_id |-> "t1", day_of_week |-> 2, is_open |-> FALSE,
       open_time |-> TimeOfDay(8, 0), close_time |-> TimeOfDay(10, 0),
       break_start |-> NullTime, break_end |-> NullTime],
      [tenant_id |-> "t1", day_of_week |-> 4, is_open |-> TRUE,
       open_time |-> TimeOfDay(8, 0), close_time |-> TimeOfDay(9, 0),
       break_start |-> NullTime, break_end |-> NullTime] }

\* get_nigerian_holidays: the <<month, day>> pairs it adds to every year.
\* (The dates holidays.Nigeria supplies are data of a library outside the
\* repository; the model's calendar has none of them.)
AdditionalHolidays ==
    {<<1, 1>>, <<10, 1>>, <<12, 25>>, <<12, 26>>, <<5, 1>>, <<6, 12>>}

\* The dates of the model's calendar that are public holidays.  Friday of
\* the first week, 1 May 2026, is one.
HolidayDates ==
    {d \in 0..DateMax :
        <<CalendarDate(d).month, CalendarDate(d).day>> \in AdditionalHolidays}

-----------------------------------------------------------------------------
(* SchedulingService: the helpers *)

\* db.query(BusinessHours).filter(BusinessHours.tenant_id == tenant_id).all()
BusinessHoursOf(tenant_id) ==
    {bh \in BusinessHoursRows : bh.tenant_id = tenant_id}

\* next((bh for bh in business_hours if bh.day_of_week == day_of_week), None):
\* the set holds the row, or is empty for None
GetBusinessHoursForDay(d, business_hours) ==
    {bh \in business_hours : bh.day_of_week = Weekday(d)}

\* _is_valid_booking_day were it to leave out the holiday test (used to test
\* C23).
IsValidBookingDay_NoHolidayTest(booking_date, business_hours) ==
    \E day_hours \in GetBusinessHoursForDay(booking_date, business_hours) :
        day_hours.is_open

\* _is_valid_booking_day
IsValidBookingDay(booking_date, business_hours) ==
    IF booking_date \in HolidayDates
    THEN FALSE
    ELSE \E day_hours \in GetBusinessHoursForDay(booking_date, business_hours) :
             day_hours.is_open

\* The step between two slot starts.
SlotStep == 15

\* the slot dictionary of _generate_day_slots
Slot(start_time, end_time, service_id, staff_id) ==
    [start_time |-> start_time, end_time |-> end_time,
     duration_minutes |-> ServiceDefinitions[service_id].duration_minutes,
     service_id |-> service_id, staff_id |-> staff_id]

\* The loop of _generate_day_slots were it to run while the slot starts
\* before the closing time (used to test C7).
RECURSIVE DaySlotsFrom_StartBeforeClose(_, _, _, _, _)
DaySlotsFrom_StartBeforeClose(current_time, end_time, bh, service_id, staff_id) ==
    LET duration == ServiceDefinitions[service_id].duration_minutes
        slot_end == current_time + duration
    IN  IF ~(current_time < end_time)
        THEN << >>
        ELSE IF /\ bh.break_start # NullTime
                /\ bh.break_end # NullTime
                /\ ~(\/ TimeOf(current_time) >= bh.break_end
                     \/ TimeOf(slot_end) <= bh.break_start)
             THEN DaySlotsFrom_StartBeforeClose(current_time + SlotStep, end_time,
                                               bh, service_id, staff_id)
             ELSE <<Slot(current_time, slot_end, service_id, staff_id)>>
                  \o DaySlotsFrom_StartBeforeClose(current_time + SlotStep,
                                                   end_time, bh, service_id, staff_id)

\* The loop of _generate_day_slots were it to run while the slot ends
\* strictly before the closing time (used to test C17).
RECURSIVE DaySlotsFrom_EndBeforeClose(_, _, _, _, _)
DaySlotsFrom_EndBeforeClose(current_time, end_time, bh, service_id, staff_id) ==
    LET duration == ServiceDefinitions[service_id].duration_minutes
        slot_end == current_time + duration
    IN  IF ~(current_time + duration < end_time)
        THEN << >>
        ELSE IF /\ bh.break_start # NullTime
                /\ bh.break_end # NullTime
                /\ ~(\/ TimeOf(current_time) >= bh.break_end
                     \/ TimeOf(slot_end) <= bh.break_start)
             THEN DaySlotsFrom_EndBeforeClose(current_time + SlotStep, end_time,
                                              bh, service_id, staff_id)
             ELSE <<Slot(current_time, slot_end, service_id, staff_id)>>
                  \o DaySlotsFrom_EndBeforeClose(current_time + SlotStep,
                                                  end_time, bh, service_id, staff_id)

\* The while loop of _generate_day_slots, from current_time on.
RECURSIVE DaySlotsFrom(_, _, _, _, _)
DaySlotsFrom(current_time, end_time, bh, service_id, staff_id) ==
    LET duration == ServiceDefinitions[service_id].duration_minutes
        slot_end == current_time + duration
    IN  IF ~(current_time + duration <= end_time)
        THEN << >>
        ELSE IF /\ bh.break_start # NullTime
                /\ bh.break_end # NullTime
                /\ ~(\/ TimeOf(current_time) >= bh.break_end
                     \/ TimeOf(slot_end) <= bh.break_start)
             THEN DaySlotsFrom(current_time + SlotStep, end_time, bh,
                               service_id, staff_id)
             ELSE <<Slot(current_time, slot_end, service_id, staff_id)>>
                  \o DaySlotsFrom(current_time + SlotStep, end_time, bh,
                                  service_id, staff_id)

\* _generate_day_slots
GenerateDaySlots(d, bh, service_id, staff_id) ==
    IF bh.open_time = NullTime \/ bh.close_time = NullTime
    THEN << >>
    ELSE DaySlotsFrom(Combine(d, bh.open_time), Combine(d, bh.close_time),
                      bh, service_id, staff_id)

\* The conflict query were it to select cancelled rows too (used to test
\* C5).
ConflictStatuses_WithCancelled ==
    {"pending", "confirmed", "checked_in", "in_progress", "cancelled"}

\* The statuses the conflict query selects.
ConflictStatuses == {"pending", "confirmed", "checked_in", "in_progress"}

\* The conflict query were it to compare with <= and >=, the intervals taken
\* as closed (used to test C18).
CheckAppointmentConflicts_Closed(db, tenant_id, start_time, end_time, staff_id, exclude) ==
    {i \in DOMAIN db :
        /\ db[i].tenant_id = tenant_id
        /\ db[i].status \in ConflictStatuses
        /\ db[i].start_time <= end_time
        /\ db[i].end_time >= start_time
        /\ (staff_id # NoStaff => db[i].assigned_staff_id = staff_id)
        /\ i \notin exclude}

\* _check_appointment_conflicts: the ids of the rows the query returns.
\* exclude is the set holding exclude_appointment_id, empty for None.
CheckAppointmentConflicts(db, tenant_id, start_time, end_time, staff_id, exclude) ==
    {i \in DOMAIN db :
        /\ db[i].tenant_id = tenant_id
        /\ db[i].status \in ConflictStatuses
        /\ db[i].start_time < end_time
        /\ db[i].end_time > start_time
        /\ (staff_id # NoStaff => db[i].assigned_staff_id = staff_id)
        /\ i \notin exclude}

\* _filter_available_slots
FilterAvailableSlots(db, slots, tenant_id, staff_id) ==
    SelectSeq(slots, LAMBDA slot :
        CheckAppointmentConflicts(db, tenant_id, slot.start_time,
                                  slot.end_time, staff_id, {}) = {})

\* _validate_booking_time were it to leave out the max-advance test (used to
\* test C3).
ValidateBookingTime_NoMaxAdvance(clock, tenant_id, service_id, start_time) ==
    IF service_id \notin ServiceIds
    THEN FALSE
    ELSE LET service == ServiceDefinitions[service_id]
             min_advance == Hours(service.min_advance_booking_hours)
         IN  IF start_time < clock + min_advance
             THEN FALSE
             ELSE IsValidBookingDay(DateOf(start_time),
                                    BusinessHoursOf(tenant_id))

\* _validate_booking_time
ValidateBookingTime(clock, tenant_id, service_id, start_time) ==
    IF service_id \notin ServiceIds
    THEN FALSE
    ELSE LET service == ServiceDefinitions[service_id]
             min_advance == Hours(service.min_advance_booking_hours)
             max_advance == Days(service.max_advance_booking_days)
         IN  IF start_time < clock + min_advance
             THEN FALSE
             ELSE IF start_time > clock + max_advance
                  THEN FALSE
                  ELSE IsValidBookingDay(DateOf(start_time),
                                         BusinessHoursOf(tenant_id))

\* list.sort(key=...): a stable sort into ascending order of the keys,
\* keys[i] being the key of seq[i]; the keys are tuples of numbers of one
\* length, compared as Python compares tuples.  An element goes to the
\* place after those whose key is smaller and those before it whose key is
\* equal.
KeyLess(a, b) ==
    \E i \in 1..Len(a) : a[i] < b[i] /\ \A j \in 1..(i - 1) : a[j] = b[j]

SortByKey(seq, keys) ==
    LET n == Len(seq)
        place == [i \in 1..n |->
                     1 + Cardinality({j \in 1..n :
                                         \/ KeyLess(keys[j], keys[i])
                                         \/ keys[j] = keys[i] /\ j < i})]
        at == [p \in 1..n |-> CHOOSE i \in 1..n : place[i] = p]
    IN  [p \in 1..n |-> seq[at[p]]]

Abs(x) == IF x < 0 THEN 0 - x ELSE x

\* time_preference_score: the seconds to the closest preferred time
TimePreferenceScore(slot, preferred_times) ==
    LET diffs == {Abs(TimeOf(slot.start_time) - preferred_times[k]) * 60 :
                     k \in 1..Len(preferred_times)}
    IN  CHOOSE m \in diffs : \A d \in diffs : m <= d

\* _apply_time_preferences
ApplyTimePreferences(slots, preferred_times) ==
    SortByKey(slots, [i \in 1..Len(slots) |->
        <<TimePreferenceScore(slots[i], preferred_times), slots[i].start_time>>])

\* The window find_available_slots searches when no end_date is given.
DefaultWindowDays == 30

\* The while loop of find_available_slots, from current_date on.
RECURSIVE SlotsOfDays(_, _, _, _, _, _)
SlotsOfDays(db, current_date, end_date, tenant_id, service_id, staff_id) ==
    IF ~(current_date <= end_date)
    THEN << >>
    ELSE LET business_hours == BusinessHoursOf(tenant_id)
             day_hours == GetBusinessHoursForDay(current_date, business_hours)
             rest == SlotsOfDays(db, current_date + 1, end_date, tenant_id,
                                 service_id, staff_id)
         IN  IF ~IsValidBookingDay(current_date, business_hours)
             THEN rest
             ELSE IF day_hours = {} \/ ~(CHOOSE bh \in day_hours : TRUE).is_open
                  THEN rest
                  ELSE FilterAvailableSlots(db,
                           GenerateDaySlots(current_date,
                                            CHOOSE bh \in day_hours : TRUE,
                                            service_id, staff_id),
                           tenant_id, staff_id) \o rest

\* find_available_slots were it to go on without business hours instead of
\* raising (used to test C16).
FindAvailableSlots_NoHoursCheck(db, tenant_id, service_id, start_date, end_date, staff_id, preferred_times) ==
    LET last_date == IF end_date = {}
                     THEN start_date + DefaultWindowDays
                     ELSE CHOOSE d \in end_date : TRUE
    IN  IF ~(/\ service_id \in ServiceIds
             /\ ServiceDefinitions[service_id].tenant_id = tenant_id
             /\ ServiceDefinitions[service_id].is_active)
        THEN [raised |-> "ServiceNotAvailableError", slots |-> << >>]
        ELSE LET found == SlotsOfDays(db, start_date, last_date, tenant_id,
                                      service_id, staff_id)
                 by_start == SortByKey(found, [i \in 1..Len(found) |->
                                                   <<found[i].start_time>>])
             IN  [raised |-> "None",
                  slots |-> IF preferred_times # << >>
                            THEN ApplyTimePreferences(by_start, preferred_times)
                            ELSE by_start]

\* find_available_slots: what it raises ("None" when it returns) and the
\* list it returns.  end_date and preferred_times are given as a set ({} for
\* None) and a sequence (empty for None).
FindAvailableSlots(db, tenant_id, service_id, start_date, end_date, staff_id, preferred_times) ==
    LET last_date == IF end_date = {}
                     THEN start_date + DefaultWindowDays
                     ELSE CHOOSE d \in end_date : TRUE
    IN  IF ~(/\ service_id \in ServiceIds
             /\ ServiceDefinitions[service_id].tenant_id = tenant_id
             /\ ServiceDefinitions[service_id].is_active)
        THEN [raised |-> "ServiceNotAvailableError", slots |-> << >>]
        ELSE IF BusinessHoursOf(tenant_id) = {}
             THEN [raised |-> "SchedulingError", slots |-> << >>]
             ELSE LET found == SlotsOfDays(db, start_date, last_date, tenant_id,
                                          service_id, staff_id)
                      by_start == SortByKey(found, [i \in 1..Len(found) |->
                                                        <<found[i].start_time>>])
                  IN  [raised |-> "None",
                       slots |-> IF preferred_times # << >>
                                 THEN ApplyTimePreferences(by_start, preferred_times)
                                 ELSE by_start]

\* str(tenant_id): the text of each tenant's id (a UUID, here cut short after
\* its first group).  The two tenants' ids differ after their first eight
\* characters.
TenantIdText ==
    [ t1 |-> <<"3", "f", "2", "a", "9", "c", "0", "4", "-", "d", "1">>,
      t2 |-> <<"3", "f", "2", "a", "9", "c", "0", "4", "-", "7", "e">> ]

\* str.upper() of a character of a UUID's text
Upper(ch) ==
    CASE ch = "a" -> "A" [] ch = "b" -> "B" [] ch = "c" -> "C"
      [] ch = "d" -> "D" [] ch = "e" -> "E" [] ch = "f" -> "F"
      [] OTHER -> ch

\* The characters of the tenant id that the reference keeps.
PrefixLength == 8

\* str(tenant_id).replace('-', '')[:8].upper()
TenantPrefix(tenant_id) ==
    LET text == SelectSeq(TenantIdText[tenant_id], LAMBDA ch : ch # "-")
        kept == IF Len(text) < PrefixLength THEN Len(text) ELSE PrefixLength
    IN  [i \in 1..kept |-> Upper(text[i])]

\* _generate_booking_reference: "BK", the tenant prefix, the clock as
\* %m%d%H%M (the year is dropped) and the first four characters of a uuid4.
\* The uuid4 draw is arbitrary: it either repeats the suffix of a reference
\* that has the same prefix and timestamp, or is a new one.  Suffixes are
\* numbered in the order of their first appearance.
YearMinutes == 365 * DayMinutes

Timestamp(clock) == clock % YearMinutes

SuffixDraws(held, tenant_id, clock) ==
    0..Cardinality({r \in held : /\ r[1] = TenantPrefix(tenant_id)
                                 /\ r[2] = Timestamp(clock)})

GenerateBookingReference(tenant_id, clock, random_suffix) ==
    <<TenantPrefix(tenant_id), Timestamp(clock), random_suffix>>

\* Appointment(...): the row create_appointment builds, with the column
\* defaults of the model class.
Appointment(tenant_id, service_id, start_time, end_time, staff_id, booking_reference, clock) ==
    [tenant_id |-> tenant_id,
     service_id |-> service_id,
     start_time |-> start_time,
     end_time |-> end_time,
     assigned_staff_id |-> staff_id,
     status |-> "pending",
     booking_reference |-> booking_reference,
     recurrence_type |-> "none",
     recurrence_interval |-> 1,
     parent_appointment_id |-> {},
     cancelled_at |-> NullTime,
     checked_in_at |-> NullTime,
     service_started_at |-> NullTime,
     service_completed_at |-> NullTime,
     updated_at |-> clock]

\* The code attribute of each exception class ("" when nothing is raised).
ErrorCode(raised) ==
    CASE raised = "SchedulingError" -> "SCHEDULING_ERROR"
      [] raised = "AppointmentConflictError" -> "APPOINTMENT_CONFLICT"
      [] raised = "ServiceNotAvailableError" -> "SERVICE_NOT_AVAILABLE"
      [] raised = "InvalidBookingTimeError" -> "INVALID_BOOKING_TIME"
      [] raised = "InvalidAppointmentStatusError" -> "INVALID_STATUS_TRANSITION"
      [] OTHER -> ""

\* The arguments of a call, and what a call returned or raised.
Args(tenant_id, service_id, start_time, staff_id, id) ==
    [tenant_id |-> tenant_id, service_id |-> service_id,
     start_time |-> start_time, staff_id |-> staff_id, id |-> id]

Outcome(op, args, raised, id, slots) ==
    [op |-> op, args |-> args, raised |-> raised, code |-> ErrorCode(raised),
     id |-> id, slots |-> slots]

NoCall == Outcome("none", Args("", "", NullTime, NoStaff, 0), "None", 0, << >>)

\* create_appointment up to the construction of the row: what it raises,
\* and the row it is about to add.
CreateChecked(db, clock, tenant_id, service_id, start_time, staff_id, random_suffix) ==
    IF ~ValidateBookingTime(clock, tenant_id, service_id, start_time)
    THEN [raised |-> "InvalidBookingTimeError", row |-> << >>]
    ELSE IF ~(/\ service_id \in ServiceIds
              /\ ServiceDefinitions[service_id].tenant_id = tenant_id)
         THEN [raised |-> "ServiceNotAvailableError", row |-> << >>]
         ELSE LET service == ServiceDefinitions[service_id]
                  end_time == start_time + service.duration_minutes
              IN  IF CheckAppointmentConflicts(db, tenant_id, start_time,
                                               end_time, staff_id, {}) # {}
                  THEN [raised |-> "AppointmentConflictError", row |-> << >>]
                  ELSE [raised |-> "None",
                        row |-> Appointment(tenant_id, service_id, start_time,
                                    end_time, staff_id,
                                    GenerateBookingReference(tenant_id, clock,
                                                             random_suffix),
                                    clock)]

\* booking_reference is a unique column: the INSERT of a row whose reference
\* is held by another row fails.
ReferenceHeld(db, booking_reference) ==
    \E i \in DOMAIN db : db[i].booking_reference = booking_reference

References(db) == {db[i].booking_reference : i \in DOMAIN db}

\* reschedule_appointment were its conflict check to pass no
\* exclude_appointment_id (used to test C19).
RescheduleChecked_NoExclude(db, clock, appointment_id, new_start_time) ==
    IF appointment_id \notin DOMAIN db
    THEN [raised |-> "SchedulingError", new_end_time |-> NullTime]
    ELSE LET appointment == db[appointment_id]
             service == ServiceDefinitions[appointment.service_id]
             new_end_time == new_start_time + service.duration_minutes
         IN  IF appointment.status \in {"completed", "cancelled"}
             THEN [raised |-> "SchedulingError", new_end_time |-> NullTime]
             ELSE IF ~ValidateBookingTime(clock, appointment.tenant_id,
                                          appointment.service_id, new_start_time)
                  THEN [raised |-> "InvalidBookingTimeError",
                        new_end_time |-> NullTime]
                  ELSE IF CheckAppointmentConflicts(db, appointment.tenant_id,
                              new_start_time, new_end_time,
                              appointment.assigned_staff_id, {}) # {}
                       THEN [raised |-> "AppointmentConflictError",
                             new_end_time |-> NullTime]
                       ELSE [raised |-> "None", new_end_time |-> new_end_time]

\* reschedule_appointment up to the conflict check: what it raises, and the
\* new interval it is about to write.
RescheduleChecked(db, clock, appointment_id, new_start_time) ==
    IF appointment_id \notin DOMAIN db
    THEN [raised |-> "SchedulingError", new_end_time |-> NullTime]
    ELSE LET appointment == db[appointment_id]
             service == ServiceDefinitions[appointment.service_id]
             new_end_time == new_start_time + service.duration_minutes
         IN  IF appointment.status \in {"completed", "cancelled"}
             THEN [raised |-> "SchedulingError", new_end_time |-> NullTime]
             ELSE IF ~ValidateBookingTime(clock, appointment.tenant_id,
                                          appointment.service_id, new_start_time)
                  THEN [raised |-> "InvalidBookingTimeError",
                        new_end_time |-> NullTime]
                  ELSE IF CheckAppointmentConflicts(db, appointment.tenant_id,
                              new_start_time, new_end_time,
                              appointment.assigned_staff_id,
                              {appointment_id}) # {}
                       THEN [raised |-> "AppointmentConflictError",
                             new_end_time |-> NullTime]
                       ELSE [raised |-> "None", new_end_time |-> new_end_time]

\* The update reschedule_appointment commits.
RescheduleWritten(db, clock, appointment_id, new_start_time, new_end_time) ==
    [db EXCEPT ![appointment_id] =
        [@ EXCEPT !.start_time = new_start_time,
                  !.end_time = new_end_time,
                  !.status = "rescheduled",
                  !.updated_at = clock]]

\* cancel_appointment: what it raises, and the table after it.
CancelResult(db, clock, appointment_id) ==
    IF appointment_id \notin DOMAIN db
    THEN [raised |-> "SchedulingError", db |-> db]
    ELSE IF db[appointment_id].status = "completed"
         THEN [raised |-> "SchedulingError", db |-> db]
         ELSE IF db[appointment_id].status = "cancelled"
              THEN [raised |-> "SchedulingError", db |-> db]
              ELSE [raised |-> "None",
                    db |-> [db EXCEPT ![appointment_id] =
                               [@ EXCEPT !.status = "cancelled",
                                         !.cancelled_at = clock,
                                         !.updated_at = clock]]]

\* check_in_appointment
CheckInResult(db, clock, appointment_id) ==
    IF appointment_id \notin DOMAIN db
    THEN [raised |-> "SchedulingError", db |-> db]
    ELSE IF db[appointment_id].status # "confirmed"
         THEN [raised |-> "SchedulingError", db |-> db]
         ELSE [raised |-> "None",
               db |-> [db EXCEPT ![appointment_id] =
                          [@ EXCEPT !.status = "checked_in",
                                    !.checked_in_at = clock,
                                    !.updated_at = clock]]]

\* start_service
StartServiceResult(db, clock, appointment_id) ==
    IF appointment_id \notin DOMAIN db
    THEN [raised |-> "SchedulingError", db |-> db]
    ELSE IF db[appointment_id].status # "checked_in"
         THEN [raised |-> "SchedulingError", db |-> db]
         ELSE [raised |-> "None",
               db |-> [db EXCEPT ![appointment_id] =
                          [@ EXCEPT !.status = "in_progress",
                                    !.service_started_at = clock,
                                    !.updated_at = clock]]]

\* complete_appointment
CompleteResult(db, clock, appointment_id) ==
    IF appointment_id \notin DOMAIN db
    THEN [raised |-> "SchedulingError", db |-> db]
    ELSE IF db[appointment_id].status # "in_progress"
         THEN [raised |-> "SchedulingError", db |-> db]
         ELSE [raised |-> "None",
               db |-> [db EXCEPT ![appointment_id] =
                          [@ EXCEPT !.status = "completed",
                                    !.service_completed_at = clock,
                                    !.updated_at = clock]]]

\* mark_no_show
MarkNoShowResult(db, clock, appointment_id) ==
    IF appointment_id \notin DOMAIN db
    THEN [raised |-> "SchedulingError", db |-> db]
    ELSE [raised |-> "None",
          db |-> [db EXCEPT ![appointment_id] =
                     [@ EXCEPT !.status = "no_show",
                               !.updated_at = clock]]]

-----------------------------------------------------------------------------
(* The bounds of the model, and the arguments the callers draw from. *)

\* The rows the table may hold.
MaxAppointments == 2

\* The times the clock advances, by ClockStep each time.
MaxTicks == 1

ClockStep == Hours(12)

TenantArgs == {"t1"}
ServiceArgs == {"s1", "s2"}
StaffArgs == {"st1", "st2"}
StartArgs == {Combine(0, TimeOfDay(8, 0)), Combine(0, TimeOfDay(8, 30)),
              Combine(1, TimeOfDay(8, 0)), Combine(2, TimeOfDay(8, 0))}
IdArgs == 1..MaxAppointments
\* find_available_slots: service, start_date, end_date, staff, preferred_times
FindArgs == {<<"s1", 0, {0}, "st1", << >>>>,
             <<"s2", 0, {1}, NoStaff, << >>>>,
             <<"s1", 1, {2}, "st2", <<TimeOfDay(9, 0)>>>>,
             <<"s2", 0, {0}, "st1", <<TimeOfDay(8, 10)>>>>}

\* The queries of the slot search run on its own (SlotSpec): the default
\* window, a holiday, closed days, a tenant with no business hours, an
\* inactive service, another tenant's service, a service id that no row
\* has, and a window of a closed day and a day with no row.
SlotFindArgs == {<<"t1", "s1", 0, {}, "st1", << >>>>,
                 <<"t1", "s2", 0, {4}, NoStaff, <<TimeOfDay(9, 0), TimeOfDay(8, 10)>>>>,
                 <<"t1", "s3", 0, {11}, "st2", << >>>>,
                 <<"t1", "s1", 4, {11}, "st1", <<TimeOfDay(8, 40)>>>>,
                 <<"t1", "s4", 0, {1}, "st1", << >>>>,
                 <<"t1", "s5", 0, {1}, "st1", << >>>>,
                 <<"t2", "s5", 0, {1}, NoStaff, << >>>>,
                 <<"t1", "s9", 0, {1}, "st1", << >>>>,
                 <<"t1", "s2", 2, {3}, NoStaff, << >>>>}

Callers == {"c1", "c2"}

Idle == [pc |-> "idle"]

NoRecurrence == [pc |-> "none"]

Init ==
    /\ now = 0
    /\ appointments = << >>
    /\ last = NoCall
    /\ calls = [c \in Callers |-> Idle]
    /\ rec = NoRecurrence

-----------------------------------------------------------------------------
(* The calls, each run from its first statement to its return or raise. *)

find_available_slots(tenant_id, service_id, start_date, end_date, staff_id, preferred_times) ==
    LET out == FindAvailableSlots(appointments, tenant_id, service_id,
                                  start_date, end_date, staff_id, preferred_times)
    IN  /\ last' = Outcome("find_available_slots",
                           Args(tenant_id, service_id, Combine(start_date, 0),
                                staff_id, 0),
                           out.raised, 0, out.slots)
        /\ UNCHANGED <<now, appointments, calls, rec>>

create_appointment(tenant_id, service_id, start_time, staff_id, random_suffix) ==
    LET out == CreateChecked(appointments, now, tenant_id, service_id,
                             start_time, staff_id, random_suffix)
        args == Args(tenant_id, service_id, start_time, staff_id, 0)
    IN  /\ IF out.raised # "None"
           THEN /\ last' = Outcome("create_appointment", args, out.raised, 0, << >>)
                /\ UNCHANGED appointments
           ELSE IF ReferenceHeld(appointments, out.row.booking_reference)
                THEN /\ last' = Outcome("create_appointment", args,
                                        "IntegrityError", 0, << >>)
                     /\ UNCHANGED appointments
                ELSE /\ Len(appointments) < MaxAppointments
                     /\ appointments' = Append(appointments, out.row)
                     /\ last' = Outcome("create_appointment", args, "None",
                                        Len(appointments) + 1, << >>)
        /\ UNCHANGED <<now, calls, rec>>

\* A successful call also reports old_start_time, the start it logs.
reschedule_appointment(appointment_id, new_start_time) ==
    LET out == RescheduleChecked(appointments, now, appointment_id, new_start_time)
        args == Args("", "", new_start_time, NoStaff, appointment_id)
    IN  /\ IF out.raised # "None"
           THEN /\ last' = Outcome("reschedule_appointment", args, out.raised,
                                   0, << >>)
                /\ UNCHANGED appointments
           ELSE /\ appointments' = RescheduleWritten(appointments, now,
                                       appointment_id, new_start_time,
                                       out.new_end_time)
                /\ last' = Outcome("reschedule_appointment", args, "None",
                                   appointment_id, << >>)
                            @@ [old_start_time |->
                                    appointments[appointment_id].start_time]
        /\ UNCHANGED <<now, calls, rec>>

\* A call that takes the appointment's id alone.
Lifecycle(op, appointment_id, out) ==
    /\ appointments' = out.db
    /\ last' = Outcome(op, Args("", "", NullTime, NoStaff, appointment_id),
                       out.raised,
                       IF out.raised = "None" THEN appointment_id ELSE 0, << >>)
    /\ UNCHANGED <<now, calls, rec>>

cancel_appointment(appointment_id) ==
    Lifecycle("cancel_appointment", appointment_id,
              CancelResult(appointments, now, appointment_id))

check_in_appointment(appointment_id) ==
    Lifecycle("check_in_appointment", appointment_id,
              CheckInResult(appointments, now, appointment_id))

start_service(appointment_id) ==
    Lifecycle("start_service", appointment_id,
              StartServiceResult(appointments, now, appointment_id))

complete_appointment(appointment_id) ==
    Lifecycle("complete_appointment", appointment_id,
              CompleteResult(appointments, now, appointment_id))

mark_no_show(appointment_id) ==
    Lifecycle("mark_no_show", appointment_id,
              MarkNoShowResult(appointments, now, appointment_id))

\* Time passes between two calls.
Tick ==
    /\ now < MaxTicks * ClockStep
    /\ now' = now + ClockStep
    /\ UNCHANGED <<appointments, last, calls, rec>>

\* The caller takes what the call returned or raised.
Return ==
    /\ last # NoCall
    /\ last' = NoCall
    /\ UNCHANGED <<now, appointments, calls, rec>>

\* One call of the slot search, which leaves the table as it is.
Query ==
    \E t \in TenantArgs, q \in FindArgs :
        find_available_slots(t, q[1], q[2], q[3], q[4], q[5])

\* One call of an operation that writes the table, with arguments drawn from
\* the sets above.
Update ==
    \/ \E t \in TenantArgs, s \in ServiceArgs, start \in StartArgs, st \in StaffArgs :
          \E x \in SuffixDraws(References(appointments), t, now) :
              create_appointment(t, s, start, st, x)
    \/ \E id \in IdArgs, start \in StartArgs : reschedule_appointment(id, start)
    \/ \E id \in IdArgs : cancel_appointment(id)
    \/ \E id \in IdArgs : check_in_appointment(id)
    \/ \E id \in IdArgs : start_service(id)
    \/ \E id \in IdArgs : complete_appointment(id)
    \/ \E id \in IdArgs : mark_no_show(id)

\* The calls run one after another: a call starts when the caller holds no
\* pending answer.
Next ==
    \/ last = NoCall /\ Query
    \/ last = NoCall /\ Update
    \/ last = NoCall /\ Tick
    \/ Return

Spec == Init /\ [][Next]_vars

\* The slot search on its own, over a table that bookings of one staff
\* member fill and cancellations free.
SlotCall ==
    \/ \E q \in SlotFindArgs :
          find_available_slots(q[1], q[2], q[3], q[4], q[5], q[6])
    \/ \E s \in ServiceArgs, start \in StartArgs :
          \E x \in SuffixDraws(References(appointments), "t1", now) :
              create_appointment("t1", s, start, "st1", x)
    \/ \E id \in IdArgs : cancel_appointment(id)

SlotNext ==
    \/ last = NoCall /\ SlotCall
    \/ Return

SlotSpec == Init /\ [][SlotNext]_vars

-----------------------------------------------------------------------------
(* Calls of several callers, interleaved.  Each caller has its own session: *)
(* a call reads the committed table when it runs its queries, and writes   *)
(* it when it commits.  Nothing in create_appointment or                   *)
(* reschedule_appointment locks a row or the table, and the appointments   *)
(* table has no constraint over intervals, so other callers' steps may     *)
(* fall between a call's conflict query and its commit.                    *)

ConcServiceArgs == {"s2"}
ConcStartArgs == {Combine(0, TimeOfDay(8, 0)), Combine(0, TimeOfDay(8, 30))}

\* The answer a caller holds when its call is over.
Answer(op, args, raised, id) ==
    [pc |-> "done", op |-> op, args |-> args, raised |-> raised, id |-> id]

\* The references of the rows that callers are about to insert.
ReferencesInFlight ==
    {calls[c].row.booking_reference :
        c \in {k \in Callers : calls[k].pc = "create_commit"}}

\* create_appointment from its first statement to the construction of the row
create_appointment_begin(c, tenant_id, service_id, start_time, staff_id, random_suffix) ==
    LET out == CreateChecked(appointments, now, tenant_id, service_id,
                             start_time, staff_id, random_suffix)
        args == Args(tenant_id, service_id, start_time, staff_id, 0)
        inserting == {k \in Callers : calls[k].pc = "create_commit"}
    IN  /\ calls[c].pc = "idle"
        /\ Len(appointments) + Cardinality(inserting) < MaxAppointments
        /\ calls' = [calls EXCEPT ![c] =
                        IF out.raised # "None"
                        THEN Answer("create_appointment", args, out.raised, 0)
                        ELSE [pc |-> "create_commit", args |-> args,
                              row |-> out.row]]
        /\ UNCHANGED <<now, appointments, last, rec>>

\* db.add(appointment); db.commit()
create_appointment_commit(c) ==
    /\ calls[c].pc = "create_commit"
    /\ IF ReferenceHeld(appointments, calls[c].row.booking_reference)
       THEN /\ calls' = [calls EXCEPT ![c] =
                            Answer("create_appointment", calls[c].args,
                                   "IntegrityError", 0)]
            /\ UNCHANGED appointments
       ELSE /\ appointments' = Append(appointments, calls[c].row)
            /\ calls' = [calls EXCEPT ![c] =
                            Answer("create_appointment", calls[c].args, "None",
                                   Len(appointments) + 1)]
    /\ UNCHANGED <<now, last, rec>>

\* reschedule_appointment from its first statement to the conflict check.
\* The frame keeps appointment, the row as the call's query loaded it.
reschedule_appointment_begin(c, appointment_id, new_start_time) ==
    LET out == RescheduleChecked(appointments, now, appointment_id, new_start_time)
        args == Args("", "", new_start_time, NoStaff, appointment_id)
    IN  /\ calls[c].pc = "idle"
        /\ calls' = [calls EXCEPT ![c] =
                        IF out.raised # "None"
                        THEN Answer("reschedule_appointment", args, out.raised, 0)
                        ELSE [pc |-> "reschedule_commit", args |-> args,
                              new_end_time |-> out.new_end_time,
                              appointment |-> appointments[appointment_id]]]
        /\ UNCHANGED <<now, appointments, last, rec>>

\* the assignments of reschedule_appointment and db.commit()
reschedule_appointment_commit(c) ==
    /\ calls[c].pc = "reschedule_commit"
    /\ appointments' = RescheduleWritten(appointments, now, calls[c].args.id,
                                         calls[c].args.start_time,
                                         calls[c].new_end_time)
    /\ calls' = [calls EXCEPT ![c] =
                    Answer("reschedule_appointment", calls[c].args, "None",
                           calls[c].args.id)
                        @@ [appointment |-> calls[c].appointment]]
    /\ UNCHANGED <<now, last, rec>>

\* The caller takes the answer and is free to call again.
TakeAnswer(c) ==
    /\ calls[c].pc = "done"
    /\ calls' = [calls EXCEPT ![c] = Idle]
    /\ UNCHANGED <<now, appointments, last, rec>>

ConcNext ==
    \E c \in Callers :
        \/ \E t \in TenantArgs, s \in ConcServiceArgs, start \in ConcStartArgs,
              st \in StaffArgs :
              \E x \in SuffixDraws(References(appointments) \cup ReferencesInFlight,
                                   t, now) :
                  create_appointment_begin(c, t, s, start, st, x)
        \/ create_appointment_commit(c)
        \/ \E id \in IdArgs, start \in ConcStartArgs :
              reschedule_appointment_begin(c, id, start)
        \/ reschedule_appointment_commit(c)
        \/ TakeAnswer(c)

ConcSpec == Init /\ [][ConcNext]_vars

-----------------------------------------------------------------------------
(* RecurringAppointmentService.create_recurring_appointments.  The frame    *)
(* rec holds the call's arguments and locals; a step is one pass of its    *)
(* while loop, the create_appointment call of the pass included.  The      *)
(* service and the scheduling service share one session.                   *)

\* max_appointments when the caller gives none
DefaultMaxAppointments == 52

RecurrenceTypes == {"none", "daily", "weekly", "monthly", "yearly"}

\* The loop condition were it to leave out the test of appointment_count
\* (used to test C6).
LoopContinues_NoCap(current_date, end_date, appointment_count, max_appointments) ==
    current_date < end_date

\* while current_date < end_date and appointment_count < max_appointments
LoopContinues(current_date, end_date, appointment_count, max_appointments) ==
    current_date < end_date /\ appointment_count < max_appointments

\* date + timedelta(days=days): OverflowError past date.max
AddDays(d, days) ==
    IF d + days > DateMax \/ d + days < 0
    THEN [raised |-> "OverflowError", date |-> d]
    ELSE [raised |-> "None", date |-> d + days]

\* "Calculate next occurrence" were a month to count as four weeks (used to
\* test C24).
NextOccurrence_FourWeekMonth(recurrence_type, recurrence_interval, current_date) ==
    CASE recurrence_type = "weekly" ->
             AddDays(current_date, 7 * recurrence_interval)
      [] recurrence_type = "monthly" ->
             AddDays(current_date, 28 * recurrence_interval)
      [] recurrence_type = "yearly" ->
             LET replaced == ReplaceYear(current_date,
                                 CalendarDate(current_date).year
                                 + recurrence_interval)
             IN  IF replaced = {}
                 THEN [raised |-> "ValueError", date |-> current_date]
                 ELSE [raised |-> "None", date |-> CHOOSE d \in replaced : TRUE]
      [] OTHER -> [raised |-> "None", date |-> current_date]

\* "Calculate next occurrence": what it raises and the next current_date.
\* No branch changes the date of a daily recurrence.
NextOccurrence(recurrence_type, recurrence_interval, current_date) ==
    CASE recurrence_type = "weekly" ->
             AddDays(current_date, 7 * recurrence_interval)
      [] recurrence_type = "monthly" ->
             AddDays(current_date, 30 * recurrence_interval)
      [] recurrence_type = "yearly" ->
             LET replaced == ReplaceYear(current_date,
                                 CalendarDate(current_date).year
                                 + recurrence_interval)
             IN  IF replaced = {}
                 THEN [raised |-> "ValueError", date |-> current_date]
                 ELSE [raised |-> "None", date |-> CHOOSE d \in replaced : TRUE]
      [] OTHER -> [raised |-> "None", date |-> current_date]

\* The except clause of the loop were it to leave out AppointmentConflictError
\* (used to test C11).
SkippedErrors_NoConflict == {"InvalidBookingTimeError"}

\* except (AppointmentConflictError, InvalidBookingTimeError): continue
SkippedErrors == {"AppointmentConflictError", "InvalidBookingTimeError"}

\* The statements before the loop.
create_recurring_appointments(parent_id, recurrence_type, recurrence_interval, end_date, max_appointments) ==
    /\ rec.pc = "none"
    /\ parent_id \in DOMAIN appointments
    /\ rec' = [pc |-> IF recurrence_type = "none" THEN "returned" ELSE "loop",
               parent |-> parent_id,
               recurrence_type |-> recurrence_type,
               recurrence_interval |-> recurrence_interval,
               end_date |-> end_date,
               max_appointments |-> max_appointments,
               recurring_appointments |-> <<parent_id>>,
               current_date |-> DateOf(appointments[parent_id].start_time),
               appointment_count |-> 1,
               raised |-> "None"]
    /\ UNCHANGED <<now, appointments, last, calls>>

\* What one pass of the loop body does, the date being advanced to next_date
\* and the uuid4 draw being random_suffix: the frame and the table after it.
LoopPass(db, clock, frame, next_date, random_suffix) ==
    LET parent_appointment == db[frame.parent]
        next_start_time == Combine(next_date,
                                   TimeOf(parent_appointment.start_time))
        out == CreateChecked(db, clock, parent_appointment.tenant_id,
                             parent_appointment.service_id, next_start_time,
                             parent_appointment.assigned_staff_id, random_suffix)
    IN  IF out.raised \in SkippedErrors
        THEN [rec |-> [frame EXCEPT !.current_date = next_date], db |-> db]
        ELSE IF out.raised # "None"
        THEN [rec |-> [frame EXCEPT !.pc = "raised", !.raised = out.raised,
                                    !.current_date = next_date],
              db |-> db]
        ELSE IF ReferenceHeld(db, out.row.booking_reference)
        THEN [rec |-> [frame EXCEPT !.pc = "raised", !.raised = "IntegrityError",
                                    !.current_date = next_date],
              db |-> db]
        ELSE [rec |-> [frame EXCEPT
                          !.current_date = next_date,
                          !.appointment_count = @ + 1,
                          !.recurring_appointments = Append(@, Len(db) + 1)],
              db |-> Append(db,
                        [out.row EXCEPT
                            !.parent_appointment_id = {frame.parent},
                            !.recurrence_type = frame.recurrence_type,
                            !.recurrence_interval = frame.recurrence_interval])]

\* One test of the loop condition and, when it holds, one pass of the body;
\* when it fails, the commit and the return.
create_recurring_appointments_loop ==
    /\ rec.pc = "loop"
    /\ IF ~LoopContinues(rec.current_date, rec.end_date, rec.appointment_count,
                         rec.max_appointments)
       THEN /\ rec' = [rec EXCEPT !.pc = "returned"]
            /\ UNCHANGED appointments
       ELSE \E next \in {NextOccurrence(rec.recurrence_type,
                                        rec.recurrence_interval,
                                        rec.current_date)} :
              IF next.raised # "None"
              THEN /\ rec' = [rec EXCEPT !.pc = "raised", !.raised = next.raised]
                   /\ UNCHANGED appointments
              ELSE \E x \in SuffixDraws(References(appointments),
                                        appointments[rec.parent].tenant_id, now) :
                     \E pass \in {LoopPass(appointments, now, rec, next.date, x)} :
                        /\ rec' = pass.rec
                        /\ appointments' = pass.db
    /\ UNCHANGED <<now, last, calls>>

\* The appointments booked before a series is asked for, and the arguments
\* of the series.  A run expands one series.
RecurServiceArgs == {"s1", "s3"}
RecurStartArgs == {Combine(0, TimeOfDay(8, 0)), Combine(7, TimeOfDay(8, 0))}
RecurIntervalArgs == {1, 2}
RecurEndArgs == {21, DateMax - 12, DateMax}
RecurMaxArgs == {3, DefaultMaxAppointments}

RecurNext ==
    \/ /\ last = NoCall
       /\ rec.pc = "none"
       /\ \E s \in RecurServiceArgs, start \in RecurStartArgs :
             \E x \in SuffixDraws(References(appointments), "t1", now) :
                 create_appointment("t1", s, start, "st1", x)
    \/ Return
    \/ /\ last = NoCall
       /\ \E id \in IdArgs, type \in RecurrenceTypes, interval \in RecurIntervalArgs,
             end_date \in RecurEndArgs, max \in RecurMaxArgs :
             create_recurring_appointments(id, type, interval, end_date, max)
    \/ create_recurring_appointments_loop

RecurSpec == Init /\ [][RecurNext]_vars

\* The thread that runs the loop keeps running it.
RecurFairSpec == RecurSpec /\ WF_vars(create_recurring_appointments_loop)

-----------------------------------------------------------------------------
(* utils.generate_time_slots, one pass of its while loop at a step, and the *)
(* slot search for services of any duration.  A datetime of                *)
(* generate_time_slots is counted in minutes from 00:00 of date.today().   *)

\* The slots a call of generate_time_slots may hold in the model; a call
\* whose list is that long takes no further step.
MaxSlots == 6

\* The step of generate_time_slots after a slot that overlaps the break.
BreakSkip == 15

\* start_time, end_time, slot_duration_minutes, break_start, break_end
TimeSlotArgs ==
    [start_time : {TimeOfDay(8, 0)},
     end_time : {TimeOfDay(9, 0), TimeOfDay(9, 10)},
     slot_duration_minutes : {0 - 15, 0, 30},
     break_start : {NullTime, TimeOfDay(8, 30)},
     break_end : {NullTime, TimeOfDay(8, 45)}]

\* The statements before the loop.
generate_time_slots(c, args) ==
    /\ calls[c].pc = "idle"
    /\ calls' = [calls EXCEPT ![c] =
                    [pc |-> "slots_loop", op |-> "generate_time_slots",
                     args |-> args, slots |-> << >>,
                     current_time |-> Combine(0, args.start_time),
                     end_datetime |-> Combine(0, args.end_time)]]
    /\ UNCHANGED <<now, appointments, last, rec>>

\* One test of the loop condition and, when it holds, one pass of the body;
\* when it fails, the return.
generate_time_slots_loop(c) ==
    /\ calls[c].pc = "slots_loop"
    /\ Len(calls[c].slots) < MaxSlots
    /\ LET frame == calls[c]
           duration == frame.args.slot_duration_minutes
           slot_end == frame.current_time + duration
       IN  calls' = [calls EXCEPT ![c] =
              IF ~(frame.current_time + duration <= frame.end_datetime)
              THEN [pc |-> "done", op |-> "generate_time_slots",
                    args |-> frame.args, raised |-> "None", id |-> 0,
                    slots |-> frame.slots]
              ELSE IF /\ frame.args.break_start # NullTime
                      /\ frame.args.break_end # NullTime
                      /\ ~(\/ slot_end <= Combine(0, frame.args.break_start)
                           \/ frame.current_time >= Combine(0, frame.args.break_end))
                   THEN [frame EXCEPT !.current_time = @ + BreakSkip]
                   ELSE [frame EXCEPT
                            !.slots = Append(@, TimeOf(frame.current_time)),
                            !.current_time = @ + duration]]
    /\ UNCHANGED <<now, appointments, last, rec>>

\* The queries of the slot search over services of a positive, a zero and a
\* negative duration.
EnumFindArgs == {<<"t1", "s1", 1, {1}, "st1", << >>>>,
                 <<"t1", "s6", 1, {1}, "st1", << >>>>,
                 <<"t1", "s7", 1, {1}, NoStaff, << >>>>,
                 <<"t1", "s6", 0, {0}, "st1", << >>>>,
                 <<"t1", "s7", 0, {0}, "st1", << >>>>}

EnumNext ==
    \/ /\ last = NoCall
       /\ \E q \in EnumFindArgs :
             find_available_slots(q[1], q[2], q[3], q[4], q[5], q[6])
    \/ Return
    \/ \E c \in Callers, args \in TimeSlotArgs : generate_time_slots(c, args)
    \/ \E c \in Callers : generate_time_slots_loop(c)
    \/ \E c \in Callers : TakeAnswer(c)

EnumSpec == Init /\ [][EnumNext]_vars

-----------------------------------------------------------------------------
(* The public booking route (POST /book), from its try block on.  The      *)
(* route takes a local date and time of day, converts the start to UTC and *)
(* hands it to create_appointment.  A datetime is either naive (tzinfo     *)
(* "None") or aware; the core's clock, utcnow(), is naive.                 *)

\* A naive datetime, as datetime.combine and the slot search build them.
Naive(time) == [time |-> time, tzinfo |-> "None"]

\* convert_to_utc(local_datetime, "Africa/Lagos") of a naive datetime: it is
\* localized to Africa/Lagos, which is one hour ahead of UTC all year, and
\* converted with astimezone, so that the result is aware.
ConvertToUtc(local_datetime) ==
    [time |-> local_datetime.time - Hours(1), tzinfo |-> "UTC"]

\* create_appointment called with a datetime that may be aware: for a
\* service that exists, _validate_booking_time compares start_time with
\* utcnow() + min_advance, and Python raises TypeError when one of the two
\* is aware and the other naive.
CreateCheckedAt(db, clock, tenant_id, service_id, start_time, staff_id, random_suffix) ==
    IF service_id \in ServiceIds /\ start_time.tzinfo # "None"
    THEN [raised |-> "TypeError", row |-> << >>]
    ELSE CreateChecked(db, clock, tenant_id, service_id, start_time.time,
                       staff_id, random_suffix)

\* The status of the route's answer: its except clause turns an exception
\* whose text holds "conflict" or "not available" into 409, any other
\* into 500.
StatusCode(raised) ==
    CASE raised = "None" -> 200
      [] raised = "InvalidBookingTimeError" -> 409
      [] raised = "AppointmentConflictError" -> 409
      [] OTHER -> 500

\* The start the route books: the preferred time on the preferred date, or
\* (preferred_time None, here NullTime) the first slot the search returns
\* for that date.
BookingStart(db, tenant_id, service_id, preferred_date, preferred_time, staff_id) ==
    IF preferred_time # NullTime
    THEN [raised |-> "None", start_time |-> Naive(Combine(preferred_date, preferred_time))]
    ELSE LET found == FindAvailableSlots(db, tenant_id, service_id, preferred_date,
                                         {preferred_date}, staff_id, << >>)
         IN  IF found.raised # "None"
             THEN [raised |-> found.raised, start_time |-> Naive(NullTime)]
             ELSE IF found.slots = << >>
                  THEN [raised |-> "HTTPException", start_time |-> Naive(NullTime)]
                  ELSE [raised |-> "None",
                        start_time |-> Naive(found.slots[1].start_time)]

RouteServiceArgs == {"s1", "s2", "s9"}
RouteDateArgs == {0, 1}
RouteTimeArgs == {NullTime, TimeOfDay(8, 0), TimeOfDay(9, 30)}

\* create_booking: the answer reports the local start that was asked for
\* and the status of the response.
create_booking(tenant_id, service_id, preferred_date, preferred_time, staff_id, random_suffix) ==
    LET start == BookingStart(appointments, tenant_id, service_id,
                              preferred_date, preferred_time, staff_id)
        out == IF start.raised # "None"
               THEN [raised |-> start.raised, row |-> << >>]
               ELSE CreateCheckedAt(appointments, now, tenant_id, service_id,
                                    ConvertToUtc(start.start_time), staff_id,
                                    random_suffix)
        args == Args(tenant_id, service_id, start.start_time.time, staff_id, 0)
        answer(raised, id) ==
            Outcome("create_booking", args, raised, id, << >>)
                @@ [status_code |-> StatusCode(raised),
                    preferred_date |-> preferred_date]
    IN  /\ IF out.raised # "None"
           THEN /\ last' = answer(out.raised, 0)
                /\ UNCHANGED appointments
           ELSE IF ReferenceHeld(appointments, out.row.booking_reference)
                THEN /\ last' = answer("IntegrityError", 0)
                     /\ UNCHANGED appointments
                ELSE /\ Len(appointments) < MaxAppointments
                     /\ appointments' = Append(appointments, out.row)
                     /\ last' = answer("None", Len(appointments) + 1)
        /\ UNCHANGED <<now, calls, rec>>

\* The route's bookings next to direct calls of the core, for one staff
\* member.
RouteNext ==
    \/ last = NoCall /\ SlotCall
    \/ /\ last = NoCall
       /\ \E s \in RouteServiceArgs, d \in RouteDateArgs, t \in RouteTimeArgs :
             \E x \in SuffixDraws(References(appointments), "t1", now) :
                 create_booking("t1", s, d, t, "st1", x)
    \/ Return

RouteSpec == Init /\ [][RouteNext]_vars

-----------------------------------------------------------------------------
(* create_appointment over a wider choice of arguments: an inactive        *)
(* service, another tenant's service, an id that no service has, a closed  *)
(* day, a day with no business_hours row, a holiday, and a booking with no *)
(* staff member.                                                           *)

BookServiceArgs == {"s2", "s4", "s5", "s9"}
BookStartArgs == {Combine(0, TimeOfDay(8, 0)), Combine(0, TimeOfDay(8, 30)),
                  Combine(1, TimeOfDay(8, 0)), Combine(2, TimeOfDay(8, 0)),
                  Combine(3, TimeOfDay(8, 0)), Combine(4, TimeOfDay(8, 0))}
BookStaffArgs == {"st1", NoStaff}

BookNext ==
    \/ /\ last = NoCall
       /\ \E s \in BookServiceArgs, start \in BookStartArgs, st \in BookStaffArgs :
             \E x \in SuffixDraws(References(appointments), "t1", now) :
                 create_appointment("t1", s, start, st, x)
    \/ last = NoCall /\ \E id \in IdArgs : cancel_appointment(id)
    \/ Return

BookSpec == Init /\ [][BookNext]_vars

-----------------------------------------------------------------------------
(* Calls on one appointment by several callers, interleaved.  A call loads *)
(* the row with a plain query (no lock, no version column), tests its      *)
(* status, assigns the new values to the loaded object and commits; the    *)
(* UPDATE of the commit writes the assigned columns to the row as it then  *)
(* is.                                                                     *)

\* The update cancel_appointment commits.
CancelWritten(db, clock, appointment_id) ==
    [db EXCEPT ![appointment_id] =
        [@ EXCEPT !.status = "cancelled",
                  !.cancelled_at = clock,
                  !.updated_at = clock]]

\* The update mark_no_show commits.
MarkNoShowWritten(db, clock, appointment_id) ==
    [db EXCEPT ![appointment_id] =
        [@ EXCEPT !.status = "no_show",
                  !.updated_at = clock]]

\* cancel_appointment from its query to its status tests
cancel_appointment_begin(c, appointment_id) ==
    LET out == CancelResult(appointments, now, appointment_id)
        args == Args("", "", NullTime, NoStaff, appointment_id)
    IN  /\ calls[c].pc = "idle"
        /\ calls' = [calls EXCEPT ![c] =
                        IF out.raised # "None"
                        THEN Answer("cancel_appointment", args, out.raised, 0)
                        ELSE [pc |-> "cancel_commit", args |-> args,
                              appointment |-> appointments[appointment_id]]]
        /\ UNCHANGED <<now, appointments, last, rec>>

\* the assignments of cancel_appointment and db.commit()
cancel_appointment_commit(c) ==
    /\ calls[c].pc = "cancel_commit"
    /\ appointments' = CancelWritten(appointments, now, calls[c].args.id)
    /\ calls' = [calls EXCEPT ![c] =
                    Answer("cancel_appointment", calls[c].args, "None",
                           calls[c].args.id)
                        @@ [appointment |-> calls[c].appointment]]
    /\ UNCHANGED <<now, last, rec>>

\* mark_no_show from its query to the test that the row exists
mark_no_show_begin(c, appointment_id) ==
    LET out == MarkNoShowResult(appointments, now, appointment_id)
        args == Args("", "", NullTime, NoStaff, appointment_id)
    IN  /\ calls[c].pc = "idle"
        /\ calls' = [calls EXCEPT ![c] =
                        IF out.raised # "None"
                        THEN Answer("mark_no_show", args, out.raised, 0)
                        ELSE [pc |-> "no_show_commit", args |-> args,
                              appointment |-> appointments[appointment_id]]]
        /\ UNCHANGED <<now, appointments, last, rec>>

\* the assignments of mark_no_show and db.commit()
mark_no_show_commit(c) ==
    /\ calls[c].pc = "no_show_commit"
    /\ appointments' = MarkNoShowWritten(appointments, now, calls[c].args.id)
    /\ calls' = [calls EXCEPT ![c] =
                    Answer("mark_no_show", calls[c].args, "None",
                           calls[c].args.id)
                        @@ [appointment |-> calls[c].appointment]]
    /\ UNCHANGED <<now, last, rec>>

\* The callers book while the table is empty, and then call on the rows.
LifeNext ==
    \E c \in Callers :
        \/ /\ appointments = << >>
           /\ \E start \in ConcStartArgs :
                 \E x \in SuffixDraws(References(appointments) \cup ReferencesInFlight,
                                      "t1", now) :
                     create_appointment_begin(c, "t1", "s2", start, "st1", x)
        \/ create_appointment_commit(c)
        \/ \E id \in IdArgs : cancel_appointment_begin(c, id)
        \/ cancel_appointment_commit(c)
        \/ \E id \in IdArgs, start \in ConcStartArgs :
              reschedule_appointment_begin(c, id, start)
        \/ reschedule_appointment_commit(c)
        \/ \E id \in IdArgs : mark_no_show_begin(c, id)
        \/ mark_no_show_commit(c)
        \/ TakeAnswer(c)

LifeSpec == Init /\ [][LifeNext]_vars

-----------------------------------------------------------------------------
(* Properties of the calls run one after another (Spec). *)

TerminalStatuses == {"completed", "cancelled", "no_show"}

Overlap(a, b) == a.start_time < b.end_time /\ b.start_time < a.end_time

\* A step that is the call op, answered in the next state.
Answered(op) == last = NoCall /\ last'.op = op

\* Two distinct appointments of one tenant and one staff member, neither
\* completed, cancelled nor no_show, that overlap.
OverlappingPair(i, j) ==
    /\ i # j
    /\ appointments[i].tenant_id = appointments[j].tenant_id
    /\ appointments[i].assigned_staff_id = appointments[j].assigned_staff_id
    /\ appointments[i].status \notin TerminalStatuses
    /\ appointments[j].status \notin TerminalStatuses
    /\ Overlap(appointments[i], appointments[j])

\* C2: after any sequence of calls run one after another, two distinct
\* appointments of one tenant and one staff member whose status is not
\* completed, cancelled or no_show (rescheduled included) do not overlap.
C2_NoOverlapSequential ==
    \A i, j \in DOMAIN appointments : ~OverlappingPair(i, j)

\* A caller holding the appointment its create_appointment call returned.
Created(c) ==
    /\ calls[c].pc = "done"
    /\ calls[c].op = "create_appointment"
    /\ calls[c].raised = "None"

\* C1: under every interleaving of create_appointment and
\* reschedule_appointment calls for one tenant and one staff member, no two
\* appointments that are not completed, cancelled or no_show overlap; and of
\* two create_appointment calls in flight together for one staff member and
\* one start, the two do not both return an appointment.
C1_NoDoubleBookingConcurrent ==
    /\ \A i, j \in DOMAIN appointments : ~OverlappingPair(i, j)
    /\ \A c, k \in Callers :
          ~(/\ c # k
            /\ Created(c)
            /\ Created(k)
            /\ calls[c].args.tenant_id = calls[k].args.tenant_id
            /\ calls[c].args.staff_id = calls[k].args.staff_id
            /\ calls[c].args.start_time = calls[k].args.start_time)

\* The start lies before now + min_advance_booking_hours, or after
\* now + max_advance_booking_days, of the service.
TooEarly(service_id, start_time) ==
    start_time < now + Hours(ServiceDefinitions[service_id].min_advance_booking_hours)

TooLate(service_id, start_time) ==
    start_time > now + Days(ServiceDefinitions[service_id].max_advance_booking_days)

\* C3: create_appointment with a start before now + min_advance_booking_hours
\* or after now + max_advance_booking_days of the service raises
\* InvalidBookingTimeError and adds no appointment.
C3_AdvanceWindowEnforced ==
    [][(/\ Answered("create_appointment")
        /\ \/ TooEarly(last'.args.service_id, last'.args.start_time)
           \/ TooLate(last'.args.service_id, last'.args.start_time))
       => /\ last'.raised = "InvalidBookingTimeError"
          /\ appointments' = appointments]_vars

\* C3, the case reached: a create_appointment beyond the service's
\* max-advance window was rejected, and another one before its min-advance
\* window could be (the clock has advanced past an appointment's start).
C3_Witness ==
    /\ last.op = "create_appointment"
    /\ TooLate(last.args.service_id, last.args.start_time)
    /\ ~TooEarly(last.args.service_id, last.args.start_time)
    /\ last.raised = "InvalidBookingTimeError"
    /\ \E i \in DOMAIN appointments : TooEarly("s1", appointments[i].start_time)

\* The status each of the three calls requires.
RequiredStatus(op) ==
    CASE op = "check_in_appointment" -> "confirmed"
      [] op = "start_service" -> "checked_in"
      [] op = "complete_appointment" -> "in_progress"

\* C4: check_in_appointment succeeds only from confirmed, start_service only
\* from checked_in, complete_appointment only from in_progress; from any
\* other status each fails with the invalid-status-transition error and
\* leaves the appointment unchanged.
C4_InvalidStatusTransition ==
    [][\A op \in {"check_in_appointment", "start_service", "complete_appointment"} :
          (/\ Answered(op)
           /\ last'.args.id \in DOMAIN appointments
           /\ appointments[last'.args.id].status # RequiredStatus(op))
          => /\ last'.code = "INVALID_STATUS_TRANSITION"
             /\ appointments' = appointments]_vars

\* The slots find_available_slots generates for a query before it filters
\* them: those it returns over an empty table.
GeneratedSlots(tenant_id, q) ==
    FindAvailableSlots(<< >>, tenant_id, q[1], q[2], q[3], q[4], q[5]).slots

InSeq(x, seq) == \E k \in 1..Len(seq) : seq[k] = x

\* C5: an appointment in a terminal status blocks no slot: when a
\* cancel_appointment (or a mark_no_show) succeeds on the appointment that
\* was the only conflict of a slot, find_available_slots for that tenant,
\* staff and day returns the slot and create_appointment at it raises no
\* AppointmentConflictError.
C5_CancellationFreesCapacity ==
    [][(/\ Answered("cancel_appointment") \/ Answered("mark_no_show")
        /\ last'.raised = "None")
       => \A t \in TenantArgs, q \in FindArgs :
            LET generated == GeneratedSlots(t, q)
                found == FindAvailableSlots(appointments', t, q[1], q[2], q[3],
                                            q[4], q[5]).slots
            IN  \A k \in 1..Len(generated) :
                  CheckAppointmentConflicts(appointments, t,
                      generated[k].start_time, generated[k].end_time,
                      q[4], {}) = {last'.id}
                  => /\ InSeq(generated[k], found)
                     /\ CreateChecked(appointments', now, t, q[1],
                            generated[k].start_time, q[4], 0).raised
                        # "AppointmentConflictError"]_vars

\* C5, the case reached: find_available_slots returned a slot that overlaps
\* a cancelled appointment of the staff member asked for.
C5_Witness ==
    /\ last.op = "find_available_slots"
    /\ \E k \in 1..Len(last.slots), i \in DOMAIN appointments :
          /\ appointments[i].status = "cancelled"
          /\ appointments[i].assigned_staff_id = last.args.staff_id
          /\ Overlap(appointments[i], last.slots[k])

\* C6: create_recurring_appointments for a weekly recurrence of interval
\* >= 1 always terminates, however far the end date and whatever the
\* create_appointment calls answer, and the list it holds, the parent
\* included, never has more than max_appointments appointments (52 when the
\* caller gives none).
C6_WeeklyRecurrenceTerminatesWithinCap ==
    /\ [](rec.pc # "none" /\ rec.recurrence_type = "weekly"
          => Len(rec.recurring_appointments) <= rec.max_appointments)
    /\ [](rec.pc = "loop" /\ rec.recurrence_type = "weekly"
          => <>(rec.pc \in {"returned", "raised"}))

\* C6, the case reached: a weekly series whose end date lies beyond the
\* last date its service can be booked returned the parent and 51
\* occurrences, the cap of 52, after one occurrence was skipped.
C6_Witness ==
    /\ rec.pc = "returned"
    /\ rec.recurrence_type = "weekly"
    /\ rec.max_appointments = DefaultMaxAppointments
    /\ Len(rec.recurring_appointments) = DefaultMaxAppointments
    /\ rec.current_date < rec.end_date
    /\ rec.current_date
         > DateOf(appointments[rec.parent].start_time)
           + 7 * rec.recurrence_interval * (DefaultMaxAppointments - 1)

\* The business_hours row of the slot's weekday.
RowOfSlot(tenant_id, slot) ==
    CHOOSE bh \in GetBusinessHoursForDay(DateOf(slot.start_time),
                                         BusinessHoursOf(tenant_id)) : TRUE

\* The slot lies within the opening hours of the row and outside its break.
WithinHours(bh, slot) ==
    LET d == DateOf(slot.start_time)
    IN  /\ Combine(d, bh.open_time) <= slot.start_time
        /\ slot.end_time <= Combine(d, bh.close_time)
        /\ (bh.break_start # NullTime /\ bh.break_end # NullTime)
           => ~(/\ slot.start_time < Combine(d, bh.break_end)
                /\ Combine(d, bh.break_start) < slot.end_time)

\* C7: every slot find_available_slots returns starts at or after the
\* opening time and ends at or before the closing time of the row of its
\* weekday, and does not intersect that row's break.
C7_SlotsWithinBusinessHours ==
    (last.op = "find_available_slots" /\ last.raised = "None")
    => \A k \in 1..Len(last.slots) :
          /\ GetBusinessHoursForDay(DateOf(last.slots[k].start_time),
                                    BusinessHoursOf(last.args.tenant_id)) # {}
          /\ WithinHours(RowOfSlot(last.args.tenant_id, last.slots[k]),
                         last.slots[k])

\* C7, the case reached: on the day with a break, slots before the break and
\* a slot after it were returned, the last ending at the closing time.
C7_Witness ==
    /\ last.op = "find_available_slots"
    /\ \E k, m \in 1..Len(last.slots) :
          LET bh == RowOfSlot(last.args.tenant_id, last.slots[k])
              d == DateOf(last.slots[k].start_time)
          IN  /\ bh.break_start # NullTime
              /\ DateOf(last.slots[m].start_time) = d
              /\ last.slots[m].end_time = Combine(d, bh.break_start)
              /\ last.slots[k].start_time >= Combine(d, bh.break_end)
              /\ last.slots[k].end_time = Combine(d, bh.close_time)

\* C8: once an appointment is completed, cancelled or no_show, no call
\* changes its status.
C8_TerminalAbsorbing ==
    [][\A i \in DOMAIN appointments :
          appointments[i].status \in TerminalStatuses
          => appointments'[i].status = appointments[i].status]_vars

\* C9: reschedule_appointment on a completed, cancelled or no_show
\* appointment raises SchedulingError and leaves the appointment unchanged.
C9_RescheduleTerminalRejected ==
    [][(/\ Answered("reschedule_appointment")
        /\ last'.args.id \in DOMAIN appointments
        /\ appointments[last'.args.id].status \in TerminalStatuses)
       => /\ last'.raised = "SchedulingError"
          /\ appointments' = appointments]_vars

\* The status that follows each status of the happy path.
HappyPathSuccessor ==
    [pending |-> "confirmed", confirmed |-> "checked_in",
     checked_in |-> "in_progress", in_progress |-> "completed"]

\* No call has left an appointment confirmed, checked_in, in_progress or
\* completed (what TLC finds of Spec, and why C10 fails at its first step).
OnlyStatusesReached ==
    \A i \in DOMAIN appointments :
        appointments[i].status \in {"pending", "rescheduled", "cancelled", "no_show"}

\* C10: the happy path can be walked: whenever an appointment is pending,
\* confirmed, checked_in or in_progress, some call takes it to the next
\* status of pending, confirmed, checked_in, in_progress, completed.
C10_HappyPathReachable ==
    \A i \in DOMAIN appointments :
        (last = NoCall /\ appointments[i].status \in DOMAIN HappyPathSuccessor)
        => ENABLED (Update /\ appointments'[i].status =
                                 HappyPathSuccessor[appointments[i].status])

-----------------------------------------------------------------------------
(* Properties of create_recurring_appointments (RecurSpec). *)

\* The loop is about to run a pass of its body: its condition holds and the
\* next date is computed without an error.
PassRuns ==
    /\ rec.pc = "loop"
    /\ LoopContinues(rec.current_date, rec.end_date, rec.appointment_count,
                     rec.max_appointments)
    /\ NextOccurrence(rec.recurrence_type, rec.recurrence_interval,
                      rec.current_date).raised = "None"

\* What the create_appointment call of that pass raises ("None" when it
\* gets as far as building the row).
OccurrenceRaised ==
    LET parent_appointment == appointments[rec.parent]
        next == NextOccurrence(rec.recurrence_type, rec.recurrence_interval,
                               rec.current_date)
    IN  CreateChecked(appointments, now, parent_appointment.tenant_id,
                      parent_appointment.service_id,
                      Combine(next.date, TimeOf(parent_appointment.start_time)),
                      parent_appointment.assigned_staff_id, 0).raised

\* The appointments of the table that are occurrences of the series.
ChildrenOf(parent_id) ==
    {i \in DOMAIN appointments : appointments[i].parent_appointment_id = {parent_id}}

C12_OtherErrorsAbort ==
    [][(PassRuns /\ OccurrenceRaised \notin {"None", "AppointmentConflictError"})
       => /\ rec'.pc = "raised"
          /\ rec'.raised = OccurrenceRaised
          /\ appointments' = appointments]_vars

-----------------------------------------------------------------------------
(* Properties of booking references (ConcSpec). *)

\* C13: booking references are unique: no two appointments share a
\* booking_reference, and _generate_booking_reference never yields a
\* reference that an appointment already holds (so no create_appointment is
\* about to insert one, and none fails on the unique column).
C13_BookingReferencesUnique ==
    /\ \A i, j \in DOMAIN appointments :
          i # j => appointments[i].booking_reference
                     # appointments[j].booking_reference
    /\ \A c \in Callers :
          /\ calls[c].pc = "create_commit"
             => ~ReferenceHeld(appointments, calls[c].row.booking_reference)
          /\ calls[c].pc = "done" => calls[c].raised # "IntegrityError"

-----------------------------------------------------------------------------
(* Properties of the stored interval and of the slot search. *)

\* C14: every appointment, after create_appointment and after every
\* reschedule_appointment, ends at its start plus the duration and the two
\* buffers of its service, and ends after it starts.
C14_EndIsStartPlusDurationAndBuffers ==
    \A i \in DOMAIN appointments :
        LET service == ServiceDefinitions[appointments[i].service_id]
        IN  /\ appointments[i].end_time
                 = appointments[i].start_time + service.duration_minutes
                   + service.buffer_before_minutes + service.buffer_after_minutes
            /\ appointments[i].end_time > appointments[i].start_time

\* C15: every slot find_available_slots returns starts at or after
\* now + min_advance_booking_hours and at or before
\* now + max_advance_booking_days of the service asked for.
C15_SlotsWithinAdvanceWindow ==
    (last.op = "find_available_slots" /\ last.raised = "None")
    => \A k \in 1..Len(last.slots) :
          /\ ~TooEarly(last.args.service_id, last.slots[k].start_time)
          /\ ~TooLate(last.args.service_id, last.slots[k].start_time)

\* The service row find_available_slots looks for: of that id, of that
\* tenant, and active.
ServiceAvailable(tenant_id, service_id) ==
    /\ service_id \in ServiceIds
    /\ ServiceDefinitions[service_id].tenant_id = tenant_id
    /\ ServiceDefinitions[service_id].is_active

QueriesAnswered ==
    {q \in SlotFindArgs : /\ q[1] = last.args.tenant_id
                          /\ q[2] = last.args.service_id
                          /\ Combine(q[3], 0) = last.args.start_time
                          /\ q[5] = last.args.staff_id}

WindowEnd(q) ==
    IF q[4] = {} THEN q[3] + DefaultWindowDays ELSE CHOOSE d \in q[4] : TRUE

\* The day is one the tenant takes bookings on, its row has no break, and
\* no appointment of the tenant lies on it.
PlainFreeDay(tenant_id, d) ==
    /\ IsValidBookingDay(d, BusinessHoursOf(tenant_id))
    /\ \A bh \in GetBusinessHoursForDay(d, BusinessHoursOf(tenant_id)) :
          /\ bh.open_time # NullTime /\ bh.close_time # NullTime
          /\ bh.break_start = NullTime /\ bh.break_end = NullTime
    /\ \A i \in DOMAIN appointments :
          appointments[i].tenant_id = tenant_id
          => \/ appointments[i].end_time <= Combine(d, 0)
             \/ appointments[i].start_time >= Combine(d + 1, 0)

\* The intervals the claim expects on a day open from O to C: those that
\* start at O + 15 * k and end, duration later, at or before C.
ExpectedIntervals(d, bh, duration) ==
    {<<Combine(d, bh.open_time) + 15 * k,
       Combine(d, bh.open_time) + 15 * k + duration>> :
        k \in {n \in 0..(DayMinutes \div 15) :
                  Combine(d, bh.open_time) + 15 * n + duration
                    <= Combine(d, bh.close_time)}}

\* The places of the returned list that hold the slots of day d.
PlacesOfDay(d) == {k \in 1..Len(last.slots) : DateOf(last.slots[k].start_time) = d}

\* C17: for a day with open time O, close time C, no break and no
\* appointments, find_available_slots returns exactly the slots that start
\* at O + 15 * k minutes (k >= 0) and end at or before C, each once.
C17_SlotsEveryFifteenMinutes ==
    (last.op = "find_available_slots" /\ last.raised = "None")
    => \A q \in QueriesAnswered : \A d \in q[3]..WindowEnd(q) :
          PlainFreeDay(q[1], d)
          => LET bh == CHOOSE row \in GetBusinessHoursForDay(d, BusinessHoursOf(q[1])) : TRUE
                 expected == ExpectedIntervals(d, bh,
                                 ServiceDefinitions[q[2]].duration_minutes)
             IN  /\ {<<last.slots[k].start_time, last.slots[k].end_time>> :
                        k \in PlacesOfDay(d)} = expected
                 /\ Cardinality(PlacesOfDay(d)) = Cardinality(expected)

\* C17, the case reached: on a day with no break and no appointment the
\* call returned at least three slots, one of which ends exactly at the
\* closing time, and none that starts a quarter of an hour later.
C17_Witness ==
    /\ last.op = "find_available_slots"
    /\ \E q \in QueriesAnswered : \E d \in q[3]..WindowEnd(q) :
          /\ PlainFreeDay(q[1], d)
          /\ Cardinality(PlacesOfDay(d)) >= 3
          /\ \E k \in PlacesOfDay(d) :
                /\ \E bh \in GetBusinessHoursForDay(d, BusinessHoursOf(q[1])) :
                      last.slots[k].end_time = Combine(d, bh.close_time)
                /\ \A m \in PlacesOfDay(d) :
                      last.slots[m].start_time # last.slots[k].start_time + 15

-----------------------------------------------------------------------------
(* Properties of the conflict check (Spec). *)

\* The statuses of an active appointment.
ActiveStatuses == {"pending", "confirmed", "checked_in", "in_progress"}

\* Appointment i is an active appointment of the tenant, and of the staff
\* member when one is given, with start_time < e and end_time > s.
HalfOpenConflict(i, tenant_id, staff_id, s, e) ==
    /\ appointments[i].tenant_id = tenant_id
    /\ staff_id # NoStaff => appointments[i].assigned_staff_id = staff_id
    /\ appointments[i].status \in ActiveStatuses
    /\ appointments[i].start_time < e
    /\ appointments[i].end_time > s

\* C18: the conflict check takes intervals as half-open: a
\* create_appointment that gets as far as the check raises
\* AppointmentConflictError exactly when some active appointment [s', e')
\* has s' < e and e' > s, so a booking that starts when another ends, or
\* ends when another starts, is accepted.
C18_HalfOpenIntervals ==
    [][(/\ Answered("create_appointment")
        /\ last'.raised \notin {"InvalidBookingTimeError", "ServiceNotAvailableError"})
       => LET s == last'.args.start_time
              e == s + ServiceDefinitions[last'.args.service_id].duration_minutes
          IN  last'.raised = "AppointmentConflictError"
              <=> \E i \in DOMAIN appointments :
                     HalfOpenConflict(i, last'.args.tenant_id,
                                      last'.args.staff_id, s, e)]_vars

\* C18, the case reached: create_appointment returned an appointment that
\* starts exactly when an active appointment of the same staff member ends.
C18_Witness ==
    /\ last.op = "create_appointment"
    /\ last.raised = "None"
    /\ \E i \in DOMAIN appointments :
          /\ i # last.id
          /\ appointments[i].status \in ActiveStatuses
          /\ appointments[i].tenant_id = appointments[last.id].tenant_id
          /\ appointments[i].assigned_staff_id
               = appointments[last.id].assigned_staff_id
          /\ appointments[i].end_time = appointments[last.id].start_time

\* C19: reschedule_appointment leaves the appointment's own reservation out
\* of the conflict scan: for a pending or confirmed appointment and a new
\* start that is otherwise valid, the call succeeds and writes the new
\* start_time and end_time when the new interval overlaps no other active
\* appointment of its staff member, and raises AppointmentConflictError,
\* leaving the table as it was, when it overlaps one.
C19_RescheduleIgnoresOwnReservation ==
    [][(/\ Answered("reschedule_appointment")
        /\ last'.args.id \in DOMAIN appointments
        /\ appointments[last'.args.id].status \in {"pending", "confirmed"}
        /\ ~TooEarly(appointments[last'.args.id].service_id, last'.args.start_time)
        /\ ~TooLate(appointments[last'.args.id].service_id, last'.args.start_time)
        /\ IsValidBookingDay(DateOf(last'.args.start_time),
                             BusinessHoursOf(appointments[last'.args.id].tenant_id)))
       => LET id == last'.args.id
              s == last'.args.start_time
              e == s + ServiceDefinitions[appointments[id].service_id].duration_minutes
              others == {i \in DOMAIN appointments \ {id} :
                            HalfOpenConflict(i, appointments[id].tenant_id,
                                appointments[id].assigned_staff_id, s, e)}
          IN  IF others = {}
              THEN /\ last'.raised = "None"
                   /\ appointments'[id].start_time = s
                   /\ appointments'[id].end_time = e
              ELSE /\ last'.raised = "AppointmentConflictError"
                   /\ appointments' = appointments]_vars

\* C19, the case reached: reschedule_appointment moved an appointment to
\* another start inside its own previous interval, and succeeded.
C19_Witness ==
    /\ last.op = "reschedule_appointment"
    /\ last.raised = "None"
    /\ last.old_start_time # last.args.start_time
    /\ last.old_start_time < appointments[last.id].end_time
    /\ appointments[last.id].start_time
         < last.old_start_time
           + ServiceDefinitions[appointments[last.id].service_id].duration_minutes

-----------------------------------------------------------------------------
(* Properties of slot enumeration for any duration (EnumSpec). *)

\* C20: slot enumeration rejects a zero or negative duration as an input
\* error: generate_time_slots given such a duration never enters its loop
\* and returns no list, and find_available_slots for a service of such a
\* duration raises instead of returning.
C20_NonPositiveDurationRejected ==
    /\ \A c \in Callers :
          (/\ calls[c].pc \in {"slots_loop", "done"}
           /\ calls[c].op = "generate_time_slots"
           /\ calls[c].args.slot_duration_minutes <= 0)
          => /\ calls[c].pc = "done"
             /\ calls[c].raised # "None"
    /\ (/\ last.op = "find_available_slots"
        /\ last.args.service_id \in ServiceIds
        /\ ServiceDefinitions[last.args.service_id].duration_minutes <= 0)
       => last.raised # "None"

-----------------------------------------------------------------------------
(* Properties of the public booking route (RouteSpec). *)

\* The slots the search returns for one day, one service and one staff
\* member, over the table db.
SlotsOfDay(db, tenant_id, service_id, day, staff_id) ==
    FindAvailableSlots(db, tenant_id, service_id, day, {day}, staff_id, << >>).slots

\* slot overlaps the local interval [t, t + duration)
OverlapsLocal(slot, t, duration) ==
    slot.start_time < t + duration /\ t < slot.end_time

\* C21: a booking made through the public route for the local time t of a
\* slot that the search offers on day d is created, and the search
\* thereafter returns, for day d and the same staff member, exactly the
\* slots it returned before that do not overlap [t, t + duration).
C21_PublicBookingHidesItsSlots ==
    [][(/\ Answered("create_booking")
        /\ \E i \in DOMAIN SlotsOfDay(appointments, last'.args.tenant_id,
                                      last'.args.service_id, last'.preferred_date,
                                      last'.args.staff_id) :
              SlotsOfDay(appointments, last'.args.tenant_id,
                         last'.args.service_id, last'.preferred_date,
                         last'.args.staff_id)[i].start_time = last'.args.start_time)
       => LET a == last'.args
              d == last'.preferred_date
              duration == ServiceDefinitions[a.service_id].duration_minutes
              before == SlotsOfDay(appointments, a.tenant_id, a.service_id, d, a.staff_id)
              after == SlotsOfDay(appointments', a.tenant_id, a.service_id, d, a.staff_id)
          IN  /\ last'.raised = "None"
              /\ after = SelectSeq(before, LAMBDA slot :
                             ~OverlapsLocal(slot, a.start_time, duration))]_vars

-----------------------------------------------------------------------------
(* Properties of create_appointment over the wider arguments (BookSpec). *)

\* An id that no service row has.
UnknownService == "s9"

\* C22: another tenant's rows never influence create_appointment for a
\* tenant (naming another tenant's service answers as naming an id that no
\* service has), and an operation changes an appointment only when the call
\* names that appointment's tenant.
C22_TenantIsolation ==
    [][/\ (/\ Answered("create_appointment")
           /\ last'.args.service_id \in ServiceIds
           /\ ServiceDefinitions[last'.args.service_id].tenant_id # last'.args.tenant_id)
          => last'.raised = CreateChecked(appointments, now, last'.args.tenant_id,
                                          UnknownService, last'.args.start_time,
                                          last'.args.staff_id, 0).raised
       /\ \A i \in DOMAIN appointments :
             appointments'[i] # appointments[i]
                 => last'.args.tenant_id = appointments[i].tenant_id]_vars

\* A date on which the tenant takes no bookings: a public holiday, a
\* weekday with no business_hours row, or one whose row is not open.
NoBookingDay(tenant_id, d) ==
    \/ d \in HolidayDates
    \/ ~\E bh \in BusinessHoursRows :
           bh.tenant_id = tenant_id /\ bh.day_of_week = Weekday(d)
    \/ \E bh \in BusinessHoursRows :
           bh.tenant_id = tenant_id /\ bh.day_of_week = Weekday(d) /\ ~bh.is_open

\* C23: create_appointment for a start on a public holiday, on a weekday
\* with no business_hours row or on a day whose row is closed raises
\* InvalidBookingTimeError and adds no appointment.
C23_NoBookingOnClosedDay ==
    [][(/\ Answered("create_appointment")
        /\ NoBookingDay(last'.args.tenant_id, DateOf(last'.args.start_time)))
       => /\ last'.raised = "InvalidBookingTimeError"
          /\ appointments' = appointments]_vars

\* A booking of an existing service inside its advance window is rejected
\* because its day is a public holiday whose weekday has an open row.
C23_Witness ==
    /\ last.op = "create_appointment"
    /\ last.raised = "InvalidBookingTimeError"
    /\ last.args.service_id \in ServiceIds
    /\ DateOf(last.args.start_time) \in HolidayDates
    /\ \E bh \in BusinessHoursRows :
          /\ bh.tenant_id = last.args.tenant_id
          /\ bh.day_of_week = Weekday(DateOf(last.args.start_time))
          /\ bh.is_open
    /\ LET service == ServiceDefinitions[last.args.service_id]
       IN  /\ last.args.start_time >= now + Hours(service.min_advance_booking_hours)
           /\ last.args.start_time <= now + Days(service.max_advance_booking_days)

\* The days between two occurrences of a weekly or a monthly series.
OccurrenceStep(recurrence_type, recurrence_interval) ==
    IF recurrence_type = "weekly"
    THEN 7 * recurrence_interval
    ELSE 30 * recurrence_interval

\* A pass of the loop that reached its create_appointment call.
PassAttempts ==
    /\ rec.pc = "loop"
    /\ rec' # rec
    /\ rec'.pc # "returned"
    /\ rec'.raised \notin {"OverflowError", "ValueError"}

\* C24: the loop of a weekly (monthly) series starts from the parent's date,
\* and each pass attempts the occurrence interval weeks (30 * interval days)
\* after the one before, so that the k-th attempt is at the parent's date
\* plus k steps; an occurrence it creates has the parent's time of day,
\* tenant, service and staff member.
C24_OccurrenceDates ==
    [][/\ (rec.pc = "none" /\ rec'.pc = "loop")
          => rec'.current_date = DateOf(appointments[rec'.parent].start_time)
       /\ (PassAttempts /\ rec.recurrence_type \in {"weekly", "monthly"})
          => LET parent == appointments[rec.parent]
                 step == OccurrenceStep(rec.recurrence_type, rec.recurrence_interval)
             IN  /\ rec'.current_date = rec.current_date + step
                 /\ \E k \in 1..DateMax :
                       rec'.current_date = DateOf(parent.start_time) + k * step
                 /\ \A i \in DOMAIN appointments' \ DOMAIN appointments :
                       /\ appointments'[i].start_time
                            = Combine(rec'.current_date, TimeOf(parent.start_time))
                       /\ appointments'[i].tenant_id = parent.tenant_id
                       /\ appointments'[i].service_id = parent.service_id
                       /\ appointments'[i].assigned_staff_id = parent.assigned_staff_id]_vars

\* The second attempt of a monthly series of interval 2 has created the
\* occurrence 120 days after the parent.
C24_Witness ==
    /\ rec.pc \in {"loop", "returned"}
    /\ rec.recurrence_type = "monthly"
    /\ rec.recurrence_interval = 2
    /\ \E i \in DOMAIN appointments :
          /\ appointments[i].parent_appointment_id = {rec.parent}
          /\ appointments[i].start_time
               = appointments[rec.parent].start_time + Days(4 * 30)

\* C25: a call of create_recurring_appointments that has entered its loop
\* returns or raises, for a series of any type; for each pass of the loop
\* that computes a next date moves current_date strictly forward.
C25_RecurrenceTerminates ==
    /\ (rec.pc = "loop") ~> (rec.pc \in {"returned", "raised"})
    /\ [](/\ rec.pc = "loop"
          /\ LoopContinues(rec.current_date, rec.end_date,
                           rec.appointment_count, rec.max_appointments)
          /\ NextOccurrence(rec.recurrence_type, rec.recurrence_interval,
                            rec.current_date).raised = "None"
          => NextOccurrence(rec.recurrence_type, rec.recurrence_interval,
                            rec.current_date).date > rec.current_date)

\* C26: no occurrence that a series creates has a date after the series'
\* end_date.
C26_NoOccurrenceAfterEndDate ==
    rec.pc \in {"loop", "returned", "raised"}
        => \A i \in DOMAIN appointments :
              appointments[i].parent_appointment_id = {rec.parent}
                  => DateOf(appointments[i].start_time) <= rec.end_date

\* C27: every appointment of the table, created or moved, lies within the
\* business hours of its day: its weekday has a row, it starts at or after
\* the opening time, ends at or before the closing time and does not
\* intersect the break.
C27_AppointmentsWithinBusinessHours ==
    \A i \in DOMAIN appointments :
        /\ GetBusinessHoursForDay(DateOf(appointments[i].start_time),
                                  BusinessHoursOf(appointments[i].tenant_id)) # {}
        /\ WithinHours(RowOfSlot(appointments[i].tenant_id, appointments[i]),
                       appointments[i])

\* The row create_appointment would add for the arguments args over an
\* empty table (the request made first).
CreatedAlone(args) ==
    CreateChecked(<< >>, now, args.tenant_id, args.service_id, args.start_time,
                  args.staff_id, 0)

\* C28: of two overlapping requests of one tenant, the one made second gets
\* the same verdict (conflict or not) whichever of the two is made first,
\* also when one names a staff member and the other names none.
C28_ConflictOrderIndependent ==
    [][(/\ Answered("create_appointment")
        /\ last'.raised \in {"None", "AppointmentConflictError"}
        /\ Len(appointments) = 1
        /\ appointments[1].status = "pending"
        /\ appointments[1].tenant_id = last'.args.tenant_id
        /\ CreatedAlone(last'.args).raised = "None"
        /\ Overlap(CreatedAlone(last'.args).row, appointments[1]))
       => LET first == appointments[1]
              swapped == CreateChecked(<<CreatedAlone(last'.args).row>>, now,
                                       first.tenant_id, first.service_id,
                                       first.start_time, first.assigned_staff_id, 0)
          IN  (last'.raised = "AppointmentConflictError")
                  <=> (swapped.raised = "AppointmentConflictError")]_vars

-----------------------------------------------------------------------------
(* Properties of the interleaved calls on one appointment (LifeSpec). *)

\* The table after the call answered by a, run from its first statement to
\* its commit over the table db (unchanged when the call raises).
RunAlone(db, a) ==
    CASE a.op = "cancel_appointment" -> CancelResult(db, now, a.args.id).db
      [] a.op = "mark_no_show" -> MarkNoShowResult(db, now, a.args.id).db
      [] a.op = "reschedule_appointment" ->
             LET out == RescheduleChecked(db, now, a.args.id, a.args.start_time)
             IN  IF out.raised # "None"
                 THEN db
                 ELSE RescheduleWritten(db, now, a.args.id, a.args.start_time,
                                        out.new_end_time)
      [] OTHER -> db

\* The caller holds the answer of a call that changed an appointment.
HoldsUpdate(c) ==
    /\ calls[c].pc = "done"
    /\ calls[c].raised = "None"
    /\ calls[c].op \in {"cancel_appointment", "mark_no_show",
                        "reschedule_appointment"}

\* C29: when two callers have each completed a call on one appointment that
\* both loaded in the same state, the row (status, times and timestamps) is
\* the one that running the two calls one after the other, in one of the
\* two orders, leaves.
C29_LifecycleCallsSerializable ==
    \A c \in Callers, k \in Callers :
        (/\ c # k
         /\ HoldsUpdate(c)
         /\ HoldsUpdate(k)
         /\ calls[c].args.id = calls[k].args.id
         /\ calls[c].appointment = calls[k].appointment)
        => LET id == calls[c].args.id
               before == [appointments EXCEPT ![id] = calls[c].appointment]
           IN  appointments[id] \in
                   {RunAlone(RunAlone(before, calls[c]), calls[k])[id],
                    RunAlone(RunAlone(before, calls[k]), calls[c])[id]}

\* C30: create_appointment for a service that is inactive or belongs to
\* another tenant, at a time that is otherwise acceptable, raises
\* ServiceNotAvailableError and adds no appointment.
C30_NoBookingOfUnavailableService ==
    [][(/\ Answered("create_appointment")
        /\ last'.args.service_id \in ServiceIds
        /\ \/ ~ServiceDefinitions[last'.args.service_id].is_active
           \/ ServiceDefinitions[last'.args.service_id].tenant_id
                  # last'.args.tenant_id
        /\ ValidateBookingTime(now, last'.args.tenant_id, last'.args.service_id,
                               last'.args.start_time))
       => /\ last'.raised = "ServiceNotAvailableError"
          /\ appointments' = appointments]_vars

=============================================================================
